---- MODULE Spec2Model ----
(***************************************************************************)
(* Model of the notebook "My TCP/IP" (src/internet.ipynb): Ethernet, ARP,  *)
(* IPv4 and ICMP codecs over byte strings, the ARP table and resolver, and *)
(* the two select()-bounded reply waits.  Byte strings are sequences of    *)
(* integers 0..255; Python slices and indexing keep their semantics (a     *)
(* slice past the end is short or empty, an index past the end raises      *)
(* IndexError).  Time is counted in clock ticks.                           *)
(***************************************************************************)
EXTENDS Integers, Sequences, FiniteSets, TLC

\* ------------------------------------------------------------------------
\* Bounds of the model
\* ------------------------------------------------------------------------
\* clock ticks in the 1.0 time unit that timeout=1.0 stands for
TicksPerUnit == 2
\* most ticks one recv() plus the examination of the frame may take
MaxProc == 1
\* most frames the interface delivers during one reply wait
MaxRx == 2

\* ------------------------------------------------------------------------
\* Python byte-string primitives
\* ------------------------------------------------------------------------
None == <<>>
Some(v) == <<v>>

Min(a, b) == IF a < b THEN a ELSE b

\* buf[a:b]
Slice(buf, a, b) == SubSeq(buf, a + 1, Min(b, Len(buf)))

\* buf[a:]
SliceFrom(buf, a) == SubSeq(buf, a + 1, Len(buf))

\* int.from_bytes(s, "big")
RECURSIVE FromBytes(_)
FromBytes(s) ==
    IF s = <<>> THEN 0
    ELSE FromBytes(SubSeq(s, 1, Len(s) - 1)) * 256 + s[Len(s)]

\* n.to_bytes(2, "big")
ToBytes2(n) == <<n \div 256, n % 256>>

\* b1 & b2 on non-negative integers
RECURSIVE BitAnd(_, _)
BitAnd(a, b) ==
    IF a = 0 \/ b = 0 THEN 0
    ELSE (a % 2) * (b % 2) + 2 * BitAnd(a \div 2, b \div 2)

\* the exception an out-of-range index raises
IndexError == [exc |-> "IndexError"]

\* ------------------------------------------------------------------------
\* Process configuration and ethertypes
\* ------------------------------------------------------------------------
MY_MAC_ADDR == <<28, 135, 44, 70, 224, 71>>
MY_IP_ADDR == <<192, 168, 1, 250>>
SUBNET_MASK == <<255, 255, 255, 0>>
\* a gateway outside the own subnet
ROUTER_IP_ADDR_foreign == <<10, 0, 0, 1>>
ROUTER_IP_ADDR == <<192, 168, 1, 1>>
BROADCAST_MAC_ADDR == <<255, 255, 255, 255, 255, 255>>
GOOGLE_DNS_ADDR == <<8, 8, 8, 8>>

ARP == <<8, 6>>
IPV4 == <<8, 0>>

\* ------------------------------------------------------------------------
\* Address codecs; a text is a sequence of one-character strings
\* ------------------------------------------------------------------------
DigitChars == <<"0", "1", "2", "3", "4", "5", "6", "7", "8", "9">>

IsDigit(c) == \E i \in DOMAIN DigitChars : DigitChars[i] = c

DigitVal(c) == (CHOOSE i \in DOMAIN DigitChars : DigitChars[i] = c) - 1

\* text.split(".")
RECURSIVE split(_)
split(text) ==
    IF \A i \in DOMAIN text : text[i] # "."
    THEN <<text>>
    ELSE LET i == CHOOSE j \in DOMAIN text :
                      /\ text[j] = "."
                      /\ \A k \in 1..(j - 1) : text[k] # "."
         IN  <<SubSeq(text, 1, i - 1)>>
             \o split(SubSeq(text, i + 1, Len(text)))

\* int(s) raises ValueError unless s is a literal; over the characters of
\* the model (digits, ".", letters) a literal is a non-empty run of digits
int_raises(s) == s = <<>> \/ \E i \in DOMAIN s : ~IsDigit(s[i])

\* int(s) for a run of digits
RECURSIVE int_value(_)
int_value(s) ==
    IF s = <<>> THEN 0
    ELSE int_value(SubSeq(s, 1, Len(s) - 1)) * 10 + DigitVal(s[Len(s)])

\* bytes(int(s) for s in ip4_addr.split(".")): int() raises ValueError on a
\* non-literal, bytes() raises ValueError on a value outside range(0, 256)
encode_ip4_addr(ip4_addr) ==
    LET groups == split(ip4_addr)
    IN  IF \E i \in DOMAIN groups : int_raises(groups[i])
        THEN [exc |-> "ValueError"]
        ELSE IF \E i \in DOMAIN groups : int_value(groups[i]) > 255
             THEN [exc |-> "ValueError"]
             ELSE [value |-> [i \in DOMAIN groups |-> int_value(groups[i])]]

\* ------------------------------------------------------------------------
\* Frame codecs
\* ------------------------------------------------------------------------
ethernet_frame(dst_addr, src_addr, ethertype, payload) ==
    dst_addr \o src_addr \o ethertype \o payload

arp_request(src_mac_addr, src_ip_addr, dst_ip_addr) ==
    LET hardware_type == <<0, 1>>
        protocol_type == <<8, 0>>
        hardware_len == <<6>>
        protocol_len == <<4>>
        operation == <<0, 1>>
        dst_mac_addr == <<0, 0, 0, 0, 0, 0>>
    IN  hardware_type \o protocol_type \o hardware_len \o protocol_len
        \o operation \o src_mac_addr \o src_ip_addr \o dst_mac_addr
        \o dst_ip_addr

\* decode_ethernet_frame taking the payload from the ethertype on
decode_ethernet_frame_early(data) ==
    [dst_addr |-> Slice(data, 0, 6),
     src_addr |-> Slice(data, 6, 12),
     ethertype |-> Slice(data, 12, 14),
     payload |-> SliceFrom(data, 12)]

decode_ethernet_frame(data) ==
    [dst_addr |-> Slice(data, 0, 6),
     src_addr |-> Slice(data, 6, 12),
     ethertype |-> Slice(data, 12, 14),
     payload |-> SliceFrom(data, 14)]

\* decode_arp_packet reading the sender hardware address from the target's
\* bytes
decode_arp_packet_tha(data) ==
    [htype |-> Slice(data, 0, 2),
     ptype |-> Slice(data, 2, 4),
     hlen |-> Slice(data, 4, 5),
     plen |-> Slice(data, 5, 6),
     oper |-> Slice(data, 6, 8),
     sha |-> Slice(data, 18, 24),
     spa |-> Slice(data, 14, 18),
     tha |-> Slice(data, 18, 24),
     tpa |-> Slice(data, 24, 26)]

decode_arp_packet(data) ==
    [htype |-> Slice(data, 0, 2),
     ptype |-> Slice(data, 2, 4),
     hlen |-> Slice(data, 4, 5),
     plen |-> Slice(data, 5, 6),
     oper |-> Slice(data, 6, 8),
     sha |-> Slice(data, 8, 14),
     spa |-> Slice(data, 14, 18),
     tha |-> Slice(data, 18, 24),
     tpa |-> Slice(data, 24, 26)]

\* words of calculate_checksum: header[i:i+2] for i in range(0, len, 2)
RECURSIVE SumWords(_)
SumWords(header) ==
    IF header = <<>> THEN 0
    ELSE FromBytes(Slice(header, 0, 2)) + SumWords(SliceFrom(header, 2))

\* calculate_checksum folding the carry once
calculate_checksum_onefold(header) ==
    LET full_sum0 == SumWords(header)
        full_sum1 == (full_sum0 % 65536) + (full_sum0 \div 65536)
    IN  65535 - (full_sum1 % 65536)

calculate_checksum(header) ==
    LET full_sum0 == SumWords(header)
        full_sum1 == (full_sum0 % 65536) + (full_sum0 \div 65536)
        full_sum2 == (full_sum1 % 65536) + (full_sum1 \div 65536)
    IN  65535 - (full_sum2 % 65536)

ip4_packet(src_ip_addr, dst_ip_addr, protocol, payload) ==
    LET version == 4
        ihl == 5
        dscp == 0
        ecn == 0
        total_length == ihl * 4 + Len(payload)
        identification == 0
        flags == 2
        fragment_offset == 0
        ttl == 64
        header0 == <<version * 16 + ihl, dscp * 4 + ecn>>
                   \o ToBytes2(total_length)
                   \o ToBytes2(identification)
                   \o ToBytes2(flags * 8192 + fragment_offset)
                   \o <<ttl, protocol>>
                   \o <<0, 0>>
                   \o src_ip_addr \o dst_ip_addr
        checksum == calculate_checksum(header0)
        header == Slice(header0, 0, 10) \o ToBytes2(checksum)
                  \o SliceFrom(header0, 12)
    IN  header \o payload

icmp_ping_request_packet(identifier, sequence_no) ==
    LET message_type == 8
        message_code == 0
        message0 == <<message_type, message_code, 0, 0>>
                    \o ToBytes2(identifier) \o ToBytes2(sequence_no)
                    \o <<80, 121, 116, 104, 111, 110, 33, 33>>
        checksum == calculate_checksum(message0)
    IN  Slice(message0, 0, 2) \o ToBytes2(checksum) \o SliceFrom(message0, 4)

decode_icmp_packet(data) ==
    IF Len(data) < 2 THEN IndexError
    ELSE [type |-> data[1],
          code |-> data[2],
          checksum |-> Slice(data, 2, 4),
          identifier |-> FromBytes(Slice(data, 4, 6)),
          sequence_no |-> FromBytes(Slice(data, 6, 8)),
          payload |-> SliceFrom(data, 8)]

decode_ipv4_packet(data) ==
    IF Len(data) < 10 THEN IndexError
    ELSE [version_ihl |-> data[1],
          type |-> data[2],
          length |-> Slice(data, 2, 4),
          id |-> Slice(data, 4, 6),
          flags_offset |-> Slice(data, 6, 8),
          ttl |-> data[9],
          protocol |-> data[10],
          checksum |-> Slice(data, 10, 12),
          src_addr |-> Slice(data, 12, 16),
          dst_addr |-> Slice(data, 16, 20),
          payload |-> SliceFrom(data, 20)]

\* bytes(b1 & b2 for b1, b2 in zip(addr, SUBNET_MASK))
network_prefix(addr) ==
    [i \in 1..Min(Len(addr), Len(SUBNET_MASK)) |->
        BitAnd(addr[i], SUBNET_MASK[i])]

\* is_on_same_subnet comparing the addresses without the mask
is_on_same_subnet_nomask(ip_addr) == MY_IP_ADDR = ip_addr

is_on_same_subnet(ip_addr) ==
    network_prefix(MY_IP_ADDR) = network_prefix(ip_addr)

\* resolve_local_ip_addr never finding the address in the table
table_has_never(table, ip) == FALSE

\* line 712: ip_addr in ARP_TABLE
table_has(table, ip) == ip \in DOMAIN table

\* resolve_local_ip_addr replacing the table by the new entry
table_put_only(table, ip, sha) == [x \in {ip} |-> sha]

\* resolve_local_ip_addr forgetting to store the answer
table_put_dropped(table, ip, sha) == table

\* line 730: ARP_TABLE[ip_addr] = response.sha
table_put(table, ip, sha) ==
    [x \in DOMAIN table \cup {ip} |-> IF x = ip THEN sha ELSE table[x]]

\* the address resolve_ip_addr hands to resolve_local_ip_addr
resolve_target(ip) ==
    IF is_on_same_subnet(ip) THEN ip ELSE ROUTER_IP_ADDR

\* the frame resolve_local_ip_addr sends on a cache miss
arp_request_frame(ip) ==
    ethernet_frame(BROADCAST_MAC_ADDR, MY_MAC_ADDR, ARP,
                   arp_request(MY_MAC_ADDR, MY_IP_ADDR, ip))

\* send_echo_request addressing the IPv4 packet to the next hop
echo_request_frame_tonexthop(dst_mac, dst_ip_addr, identifier, sequence_no) ==
    ethernet_frame(dst_mac, MY_MAC_ADDR, IPV4,
                   ip4_packet(MY_IP_ADDR, resolve_target(dst_ip_addr), 1,
                              icmp_ping_request_packet(identifier,
                                                       sequence_no)))

\* the frame send_echo_request sends once the next hop is resolved
echo_request_frame(dst_mac, dst_ip_addr, identifier, sequence_no) ==
    ethernet_frame(dst_mac, MY_MAC_ADDR, IPV4,
                   ip4_packet(MY_IP_ADDR, dst_ip_addr, 1,
                              icmp_ping_request_packet(identifier,
                                                       sequence_no)))

\* dst_addr + src_addr with dst_addr = None raises TypeError
ethernet_frame_raises(dst_opt) == dst_opt = None

\* receive_arp_response without the comparison of the destination address
arp_examine_nodst(data, sender_ip_addr) ==
    LET frame == decode_ethernet_frame(data)
        arp_packet == decode_arp_packet(frame.payload)
    IN  IF frame.ethertype = ARP
        THEN IF arp_packet.spa = sender_ip_addr
             THEN [kind |-> "return", value |-> arp_packet]
             ELSE [kind |-> "continue"]
        ELSE [kind |-> "continue"]

\* receive_arp_response without the comparison of the sender address
arp_examine_nospa(data, sender_ip_addr) ==
    LET frame == decode_ethernet_frame(data)
        arp_packet == decode_arp_packet(frame.payload)
    IN  IF frame.dst_addr = MY_MAC_ADDR /\ frame.ethertype = ARP
        THEN [kind |-> "return", value |-> arp_packet]
        ELSE [kind |-> "continue"]

\* One pass of the body of receive_arp_response after recv():
\* the ARP packet to return, or "continue" with the loop.
arp_examine(data, sender_ip_addr) ==
    LET frame == decode_ethernet_frame(data)
        arp_packet == decode_arp_packet(frame.payload)
    IN  IF frame.dst_addr = MY_MAC_ADDR /\ frame.ethertype = ARP
        THEN IF arp_packet.spa = sender_ip_addr
             THEN [kind |-> "return", value |-> arp_packet]
             ELSE [kind |-> "continue"]
        ELSE [kind |-> "continue"]

\* receive_echo_reply without the comparison of the IPv4 source address
echo_examine_nosrc(data, src_ip_addr, identifier, sequence_no) ==
    LET frame == decode_ethernet_frame(data)
        ipv4_packet == decode_ipv4_packet(frame.payload)
        icmp_packet == decode_icmp_packet(ipv4_packet.payload)
    IN  IF frame.dst_addr = MY_MAC_ADDR /\ frame.ethertype = IPV4
        THEN IF "exc" \in DOMAIN ipv4_packet
             THEN [kind |-> "raise", exc |-> ipv4_packet.exc]
             ELSE IF /\ ipv4_packet.dst_addr = MY_IP_ADDR
                     /\ ipv4_packet.protocol = 1
                  THEN IF "exc" \in DOMAIN icmp_packet
                       THEN [kind |-> "raise", exc |-> icmp_packet.exc]
                       ELSE IF /\ icmp_packet.identifier = identifier
                               /\ icmp_packet.sequence_no = sequence_no
                            THEN [kind |-> "return", value |-> icmp_packet]
                            ELSE [kind |-> "continue"]
                  ELSE [kind |-> "continue"]
        ELSE [kind |-> "continue"]

\* One pass of the body of receive_echo_reply after recv():
\* the ICMP packet to return, the exception raised, or "continue".
echo_examine(data, src_ip_addr, identifier, sequence_no) ==
    LET frame == decode_ethernet_frame(data)
        ipv4_packet == decode_ipv4_packet(frame.payload)
        icmp_packet == decode_icmp_packet(ipv4_packet.payload)
    IN  IF frame.dst_addr = MY_MAC_ADDR /\ frame.ethertype = IPV4
        THEN IF "exc" \in DOMAIN ipv4_packet
             THEN [kind |-> "raise", exc |-> ipv4_packet.exc]
             ELSE IF /\ ipv4_packet.dst_addr = MY_IP_ADDR
                     /\ ipv4_packet.src_addr = src_ip_addr
                     /\ ipv4_packet.protocol = 1
                  THEN IF "exc" \in DOMAIN icmp_packet
                       THEN [kind |-> "raise", exc |-> icmp_packet.exc]
                       ELSE IF /\ icmp_packet.identifier = identifier
                               /\ icmp_packet.sequence_no = sequence_no
                            THEN [kind |-> "return", value |-> icmp_packet]
                            ELSE [kind |-> "continue"]
                  ELSE [kind |-> "continue"]
        ELSE [kind |-> "continue"]

\* time_left -= select_time
time_left_after(time_left_, select_time) == time_left_ - select_time

\* if time_left <= 0: return
wait_expired(time_left_) == time_left_ <= 0

\* a wait started with twice the timeout
Timeout_doubled == 2 * TicksPerUnit

\* timeout=1.0
Timeout == TicksPerUnit

\* ------------------------------------------------------------------------
\* Traffic on the interface
\* ------------------------------------------------------------------------
ROUTER_MAC == <<0, 31, 22, 248, 55, 134>>
HOST_MAC == <<2, 0, 0, 0, 0, 54>>
ALT_MAC == <<2, 0, 0, 0, 0, 99>>
HOST_IP == <<192, 168, 1, 54>>
OTHER_IP == <<192, 168, 1, 251>>

Targets == {HOST_IP, ROUTER_IP_ADDR, GOOGLE_DNS_ADDR}
Identifiers == {1}
SequenceNos == {1, 2}

ArpBody(oper, sha, spa, tha, tpa) ==
    <<0, 1, 8, 0, 6, 4>> \o oper \o sha \o spa \o tha \o tpa

ArpFrame(dst, oper, sha, spa) ==
    ethernet_frame(dst, sha, ARP, ArpBody(oper, sha, spa, MY_MAC_ADDR,
                                          MY_IP_ADDR))

IcmpBody(type, identifier, sequence_no) ==
    LET m0 == <<type, 0, 0, 0>> \o ToBytes2(identifier)
              \o ToBytes2(sequence_no)
              \o <<80, 121, 116, 104, 111, 110, 33, 33>>
    IN  Slice(m0, 0, 2) \o ToBytes2(calculate_checksum(m0))
        \o SliceFrom(m0, 4)

IcmpFrame(dst, src_mac, src_ip, dst_ip, protocol, type, identifier,
          sequence_no) ==
    ethernet_frame(dst, src_mac, IPV4,
                   ip4_packet(src_ip, dst_ip, protocol,
                              IcmpBody(type, identifier, sequence_no)))

Truncate(frame, n) == Slice(frame, 0, n)

ArpTraffic ==
    { ArpFrame(MY_MAC_ADDR, <<0, 2>>, ROUTER_MAC, ROUTER_IP_ADDR),
      ArpFrame(MY_MAC_ADDR, <<0, 2>>, HOST_MAC, HOST_IP),
      ArpFrame(MY_MAC_ADDR, <<0, 2>>, ALT_MAC, ROUTER_IP_ADDR),
      ArpFrame(BROADCAST_MAC_ADDR, <<0, 2>>, ROUTER_MAC, ROUTER_IP_ADDR),
      ArpFrame(MY_MAC_ADDR, <<0, 1>>, ROUTER_MAC, ROUTER_IP_ADDR),
      Truncate(ArpFrame(MY_MAC_ADDR, <<0, 2>>, ROUTER_MAC, ROUTER_IP_ADDR),
               14 + 18),
      Truncate(ArpFrame(MY_MAC_ADDR, <<0, 2>>, ROUTER_MAC, ROUTER_IP_ADDR),
               14 + 17),
      Truncate(ArpFrame(MY_MAC_ADDR, <<0, 2>>, ROUTER_MAC, ROUTER_IP_ADDR),
               13),
      arp_request_frame(ROUTER_IP_ADDR) }

EchoTraffic ==
    { IcmpFrame(MY_MAC_ADDR, ROUTER_MAC, GOOGLE_DNS_ADDR, MY_IP_ADDR, 1,
                0, 1, 1),
      IcmpFrame(MY_MAC_ADDR, ROUTER_MAC, ROUTER_IP_ADDR, MY_IP_ADDR, 1,
                0, 1, 1),
      IcmpFrame(MY_MAC_ADDR, HOST_MAC, HOST_IP, MY_IP_ADDR, 1, 0, 1, 2),
      IcmpFrame(MY_MAC_ADDR, ROUTER_MAC, GOOGLE_DNS_ADDR, MY_IP_ADDR, 1,
                8, 1, 1),
      IcmpFrame(MY_MAC_ADDR, ROUTER_MAC, GOOGLE_DNS_ADDR, MY_IP_ADDR, 1,
                0, 2, 1),
      IcmpFrame(MY_MAC_ADDR, ROUTER_MAC, GOOGLE_DNS_ADDR, MY_IP_ADDR, 17,
                0, 1, 1),
      IcmpFrame(MY_MAC_ADDR, ROUTER_MAC, GOOGLE_DNS_ADDR, OTHER_IP, 1,
                0, 1, 1),
      IcmpFrame(BROADCAST_MAC_ADDR, ROUTER_MAC, GOOGLE_DNS_ADDR,
                MY_IP_ADDR, 1, 0, 1, 1),
      Truncate(IcmpFrame(MY_MAC_ADDR, ROUTER_MAC, GOOGLE_DNS_ADDR,
                         MY_IP_ADDR, 1, 0, 1, 1), 14 + 9),
      Truncate(IcmpFrame(MY_MAC_ADDR, ROUTER_MAC, GOOGLE_DNS_ADDR,
                         MY_IP_ADDR, 1, 0, 1, 1), 14 + 19),
      Truncate(IcmpFrame(MY_MAC_ADDR, ROUTER_MAC, GOOGLE_DNS_ADDR,
                         MY_IP_ADDR, 1, 0, 1, 1), 14 + 20 + 1),
      Truncate(IcmpFrame(MY_MAC_ADDR, ROUTER_MAC, GOOGLE_DNS_ADDR,
                         MY_IP_ADDR, 1, 0, 1, 256), 14 + 20 + 7) }

\* every frame the interface may deliver to an open packet socket
Traffic == ArpTraffic \cup EchoTraffic

\* ------------------------------------------------------------------------
\* State
\* ------------------------------------------------------------------------
VARIABLES
    pc,             \* position of the single flow of control
    op,             \* the call in progress, or the last one made
    outcome,        \* how that call ended: "none" while it runs
    ARP_TABLE,      \* the process-wide ARP table
    ip_addr,        \* argument of resolve_local_ip_addr
    resolve_state,  \* "none", "hit", "wait", "reply" or "timeout"
    resolve_ret,    \* value resolve_ip_addr returned
    echo_ret,       \* value receive_echo_reply returned
    time_left,      \* local of the reply wait in progress
    data,           \* last frame recv() returned in this wait
    open_socks,     \* packet sockets currently open
    sent,           \* frames sent since the call started
    opened,         \* sockets opened since the call started
    elapsed,        \* wall-clock ticks since the wait started
    rx,             \* frames received in this wait
    match_at,       \* value of rx when the wait returned a frame
    passed_over,    \* a frame meeting the wait's conditions was discarded
    table_at_call,  \* ARP_TABLE when the call started
    resolved,       \* first MAC each address was ever resolved to
    known_at_call,  \* resolved when the call started
    c_op,           \* codec function last applied on its own, or "none"
    c_in,           \* its argument
    c_out,          \* its result: [value |-> v], or [exc |-> e] if it raised
    exclusion,      \* mutual exclusion around the table: "none", "per_address"
    call_pc,        \* position of each concurrent caller of resolve
    call_ip,        \* each caller's ip_addr
    call_response   \* each caller's response

vars == <<pc, op, outcome, ARP_TABLE, ip_addr, resolve_state, resolve_ret,
          echo_ret, time_left, data, open_socks, sent, opened, elapsed, rx,
          match_at, passed_over, table_at_call, resolved, known_at_call,
          c_op, c_in, c_out, exclusion, call_pc, call_ip, call_response>>

\* the state of the calls of resolve and ping
net_vars == <<pc, op, outcome, ARP_TABLE, ip_addr, resolve_state,
              resolve_ret, echo_ret, time_left, data, open_socks, sent,
              opened, elapsed, rx, match_at, passed_over, table_at_call,
              resolved, known_at_call>>

\* the same without the table, which concurrent callers share
flow_vars == <<pc, op, outcome, ip_addr, resolve_state, resolve_ret,
               echo_ret, time_left, data, open_socks, sent, opened, elapsed,
               rx, match_at, passed_over, table_at_call, resolved,
               known_at_call>>

\* the record of the last direct codec call
codec_vars == <<c_op, c_in, c_out>>

\* callers of resolve_local_ip_addr running concurrently
Callers == {1, 2}

\* the state of the concurrent callers
caller_vars == <<exclusion, call_pc, call_ip, call_response>>

NoOp == [name |-> "none", ip |-> <<>>, identifier |-> 0, sequence_no |-> 0]

EmptyTable == [x \in {} |-> <<>>]

Init ==
    /\ pc = "idle"
    /\ op = NoOp
    /\ outcome = "none"
    /\ ARP_TABLE = EmptyTable
    /\ ip_addr = <<>>
    /\ resolve_state = "none"
    /\ resolve_ret = None
    /\ echo_ret = None
    /\ time_left = 0
    /\ data = <<>>
    /\ open_socks = {}
    /\ sent = <<>>
    /\ opened = {}
    /\ elapsed = 0
    /\ rx = 0
    /\ match_at = 0
    /\ passed_over = FALSE
    /\ table_at_call = EmptyTable
    /\ resolved = EmptyTable
    /\ known_at_call = EmptyTable
    /\ c_op = "none"
    /\ c_in = <<>>
    /\ c_out = [value |-> <<>>]
    /\ exclusion = "none"
    /\ call_pc = [c \in Callers |-> "idle"]
    /\ call_ip = [c \in Callers |-> <<>>]
    /\ call_response = [c \in Callers |-> None]

\* ------------------------------------------------------------------------
\* The conditions of the two waits, read off the wire layout
\* (14-byte Ethernet header, then ARP, or 20-byte IPv4 header then ICMP)
\* ------------------------------------------------------------------------
WireArpMatch(f, ip) ==
    /\ Len(f) >= 32
    /\ SubSeq(f, 1, 6) = MY_MAC_ADDR
    /\ SubSeq(f, 13, 14) = ARP
    /\ SubSeq(f, 29, 32) = ip

\* sender hardware address of an ARP frame
WireArpSha(f) == SubSeq(f, 23, 28)

\* receive_echo_reply's conditions with identifier and sequence number as
\* the big-endian value of whatever bytes 4:6 and 6:8 of the ICMP part hold
WireEchoMatch(f, ip, identifier, sequence_no) ==
    /\ Len(f) >= 36
    /\ SubSeq(f, 1, 6) = MY_MAC_ADDR
    /\ SubSeq(f, 13, 14) = IPV4
    /\ SubSeq(f, 31, 34) = MY_IP_ADDR
    /\ SubSeq(f, 27, 30) = ip
    /\ f[24] = 1
    /\ FromBytes(SubSeq(f, 39, Min(40, Len(f)))) = identifier
    /\ FromBytes(SubSeq(f, 41, Min(42, Len(f)))) = sequence_no

\* ------------------------------------------------------------------------
\* resolve_ip_addr / resolve_local_ip_addr
\* ------------------------------------------------------------------------
\* where control goes when resolve_ip_addr returns
\* a with block that never closes its socket
close_socket_skipped(socks, name) == socks

\* open_packet_socket's finally: sock.close()
close_socket(socks, name) == socks \ {name}

\* a transport error swallowed inside the function it was raised in
pc_after_raise_swallowed(at) == at

\* an exception no function catches ends the call in progress
pc_after_raise(at) == "idle"

AfterResolve(name) == IF name = "ping" THEN "ping_send" ELSE "idle"

\* the call of resolve_ip_addr(target) up to its return (cache hit) or up to
\* the call of receive_arp_response (cache miss); socks are the sockets the
\* caller holds open
EnterResolve(name, target, socks) ==
    LET ip == resolve_target(target)
    IN  /\ ip_addr' = ip
        /\ table_at_call' = ARP_TABLE
        /\ known_at_call' = resolved
        /\ echo_ret' = None
        /\ data' = <<>>
        /\ rx' = 0
        /\ match_at' = 0
        /\ passed_over' = FALSE
        /\ elapsed' = 0
        /\ UNCHANGED <<ARP_TABLE, resolved>>
        /\ IF table_has(ARP_TABLE, ip)
           THEN /\ resolve_ret' = Some(ARP_TABLE[ip])
                /\ resolve_state' = "hit"
                /\ pc' = AfterResolve(name)
                /\ outcome' = IF name = "ping" THEN "none" ELSE "returned"
                /\ open_socks' = socks
                /\ opened' = socks
                /\ sent' = <<>>
                /\ time_left' = 0
           ELSE /\ resolve_ret' = None
                /\ resolve_state' = "wait"
                /\ pc' = "arp_wait"
                /\ outcome' = "none"
                /\ open_socks' = socks \cup {"resolve"}
                /\ opened' = socks \cup {"resolve"}
                /\ sent' = <<arp_request_frame(ip)>>
                /\ time_left' = Timeout

\* resolve_ip_addr(target) called from the top level
Resolve(target) ==
    /\ pc = "idle"
    /\ UNCHANGED <<codec_vars, caller_vars>>
    /\ op' = [name |-> "resolve", ip |-> target, identifier |-> 0,
              sequence_no |-> 0]
    /\ EnterResolve("resolve", target, {})

\* resolve_local_ip_addr after receive_arp_response returned response
ResolveReturn(response) ==
    /\ open_socks' = close_socket(open_socks, "resolve")
    /\ pc' = AfterResolve(op.name)
    /\ outcome' = IF op.name = "ping" THEN "none" ELSE "returned"
    /\ IF response # None
       THEN /\ ARP_TABLE' = table_put(ARP_TABLE, ip_addr, response[1].sha)
            /\ resolve_ret' = Some(response[1].sha)
            /\ resolve_state' = "reply"
            /\ resolved' = [x \in DOMAIN resolved \cup {ip_addr} |->
                               IF x \in DOMAIN resolved THEN resolved[x]
                               ELSE WireArpSha(data')]
       ELSE /\ resolve_ret' = None
            /\ resolve_state' = "timeout"
            /\ UNCHANGED <<ARP_TABLE, resolved>>

\* receive_arp_response: select() reports nothing readable within time_left
ArpWaitTimeout ==
    /\ pc = "arp_wait"
    /\ UNCHANGED <<codec_vars, caller_vars>>
    /\ elapsed' = elapsed + time_left
    /\ ResolveReturn(None)
    /\ UNCHANGED <<op, ip_addr, echo_ret, time_left, data, sent, opened, rx,
                   match_at, passed_over, table_at_call, known_at_call>>

\* receive_arp_response: select() reports the socket readable after d ticks,
\* recv() returns frame f, and receiving and examining it takes p ticks;
\* n is the count of frames received once this one is
ArpReceive(f, d, p, n) ==
    /\ pc = "arp_wait"
    /\ UNCHANGED <<codec_vars, caller_vars>>
    /\ d \in 0..time_left
    /\ data' = f
    /\ rx' = n
    /\ elapsed' = elapsed + d + p
    /\ LET r == arp_examine(f, ip_addr)
           left == time_left_after(time_left, d)
       IN  IF r.kind = "return"
           THEN /\ ResolveReturn(Some(r.value))
                /\ match_at' = rx'
                /\ UNCHANGED <<time_left, passed_over>>
           ELSE /\ time_left' = left
                /\ match_at' = 0
                /\ passed_over' = (passed_over \/ WireArpMatch(f, ip_addr))
                /\ IF wait_expired(left)
                   THEN ResolveReturn(None)
                   ELSE UNCHANGED <<pc, outcome, ARP_TABLE, resolve_state,
                                    resolve_ret, open_socks, resolved>>
    /\ UNCHANGED <<op, ip_addr, echo_ret, sent, opened, table_at_call,
                   known_at_call>>

\* one pass of the loop of receive_arp_response that receives a frame
ArpWaitFrame(f, d, p) ==
    /\ rx < MaxRx
    /\ ArpReceive(f, d, p, rx + 1)

\* ------------------------------------------------------------------------
\* ping: with open_packet_socket(...) as s: send_echo_request(s, ...);
\*       receive_echo_reply(s, ...)
\* ------------------------------------------------------------------------
\* the cell opens its socket and send_echo_request calls resolve_ip_addr
Ping(target, identifier, sequence_no) ==
    /\ pc = "idle"
    /\ UNCHANGED <<codec_vars, caller_vars>>
    /\ op' = [name |-> "ping", ip |-> target, identifier |-> identifier,
              sequence_no |-> sequence_no]
    /\ EnterResolve("ping", target, {"cell"})

\* send_echo_request after resolve_ip_addr returned: build the frame and
\* send it, then enter receive_echo_reply
PingSend ==
    /\ pc = "ping_send"
    /\ UNCHANGED <<codec_vars, caller_vars>>
    /\ IF ethernet_frame_raises(resolve_ret)
       THEN /\ outcome' = "TypeError"
            /\ pc' = "idle"
            /\ open_socks' = close_socket(open_socks, "cell")
            /\ UNCHANGED <<sent, time_left, elapsed, data, rx, match_at,
                           passed_over>>
       ELSE /\ sent' = Append(sent,
                              echo_request_frame(resolve_ret[1], op.ip,
                                                 op.identifier,
                                                 op.sequence_no))
            /\ pc' = "echo_wait"
            /\ time_left' = Timeout
            /\ elapsed' = 0
            /\ data' = <<>>
            /\ rx' = 0
            /\ match_at' = 0
            /\ passed_over' = FALSE
            /\ UNCHANGED <<outcome, open_socks>>
    /\ UNCHANGED <<op, ARP_TABLE, ip_addr, resolve_state, resolve_ret,
                   echo_ret, opened, table_at_call, resolved, known_at_call>>

\* the cell after receive_echo_reply returned or raised: the with block
\* closes the socket
PingReturn(how, value) ==
    /\ outcome' = how
    /\ echo_ret' = value
    /\ pc' = "idle"
    /\ open_socks' = close_socket(open_socks, "cell")

\* receive_echo_reply: select() reports nothing readable within time_left
EchoWaitTimeout ==
    /\ pc = "echo_wait"
    /\ UNCHANGED <<codec_vars, caller_vars>>
    /\ elapsed' = elapsed + time_left
    /\ PingReturn("returned", None)
    /\ UNCHANGED <<op, ARP_TABLE, ip_addr, resolve_state, resolve_ret,
                   time_left, data, sent, opened, rx, match_at, passed_over,
                   table_at_call, resolved, known_at_call>>

\* receive_echo_reply: select() reports the socket readable after d ticks,
\* recv() returns frame f, and receiving and examining it takes p ticks;
\* n is the count of frames received once this one is
EchoReceive(f, d, p, n) ==
    /\ pc = "echo_wait"
    /\ UNCHANGED <<codec_vars, caller_vars>>
    /\ d \in 0..time_left
    /\ data' = f
    /\ rx' = n
    /\ elapsed' = elapsed + d + p
    /\ LET r == echo_examine(f, op.ip, op.identifier, op.sequence_no)
           left == time_left_after(time_left, d)
       IN  CASE r.kind = "return" ->
                 /\ PingReturn("returned", Some(r.value))
                 /\ match_at' = rx'
                 /\ UNCHANGED <<time_left, passed_over>>
             [] r.kind = "raise" ->
                 /\ PingReturn(r.exc, None)
                 /\ match_at' = 0
                 /\ UNCHANGED <<time_left, passed_over>>
             [] OTHER ->
                 /\ time_left' = left
                 /\ match_at' = 0
                 /\ passed_over' =
                        (passed_over \/ WireEchoMatch(f, op.ip, op.identifier,
                                                      op.sequence_no))
                 /\ IF wait_expired(left)
                    THEN PingReturn("returned", None)
                    ELSE UNCHANGED <<pc, outcome, echo_ret, open_socks>>
    /\ UNCHANGED <<op, ARP_TABLE, ip_addr, resolve_state, resolve_ret, sent,
                   opened, table_at_call, resolved, known_at_call>>

\* one pass of the loop of receive_echo_reply that receives a frame
EchoWaitFrame(f, d, p) ==
    /\ rx < MaxRx
    /\ EchoReceive(f, d, p, rx + 1)

Next ==
    \/ \E target \in Targets : Resolve(target)
    \/ ArpWaitTimeout
    \/ \E f \in Traffic, d \in 0..Timeout, p \in 0..MaxProc :
           ArpWaitFrame(f, d, p)
    \/ \E target \in Targets, identifier \in Identifiers,
          sequence_no \in SequenceNos :
           Ping(target, identifier, sequence_no)
    \/ PingSend
    \/ EchoWaitTimeout
    \/ \E f \in Traffic, d \in 0..Timeout, p \in 0..MaxProc :
           EchoWaitFrame(f, d, p)

Spec == Init /\ [][Next]_vars

TypeOK ==
    /\ pc \in {"idle", "arp_wait", "ping_send", "echo_wait"}
    /\ outcome \in {"none", "returned", "TypeError", "IndexError", "OSError"}
    /\ resolve_state \in {"none", "hit", "wait", "reply", "timeout", "error"}
    /\ time_left \in 0..Timeout
    /\ rx \in 0..MaxRx
    /\ open_socks \subseteq {"cell", "resolve"}

\* ------------------------------------------------------------------------
\* The codecs called on their own
\* ------------------------------------------------------------------------
CARRY_IP == <<255, 255, 58, 235>>
ZERO_IP == <<0, 0, 0, 0>>

Macs == {MY_MAC_ADDR, BROADCAST_MAC_ADDR, ROUTER_MAC}
Ips == {MY_IP_ADDR, ROUTER_IP_ADDR, GOOGLE_DNS_ADDR, CARRY_IP, ZERO_IP}
Ethertypes == {ARP, IPV4}
Protocols == {1, 17}
Payloads ==
    { <<>>, <<7>>, arp_request(MY_MAC_ADDR, MY_IP_ADDR, ROUTER_IP_ADDR),
      icmp_ping_request_packet(1, 1) }
IcmpNumbers == {0, 1, 2, 255, 256, 65535}

\* every prefix of b, b included
Prefixes(b) == {Slice(b, 0, n) : n \in 0..Len(b)}

\* buffers handed to the decoders and to calculate_checksum
Buffers ==
    UNION { Prefixes(b) :
            b \in { ArpFrame(MY_MAC_ADDR, <<0, 2>>, ROUTER_MAC,
                             ROUTER_IP_ADDR),
                    echo_request_frame(ROUTER_MAC, GOOGLE_DNS_ADDR, 1, 1),
                    arp_request(MY_MAC_ADDR, MY_IP_ADDR, ROUTER_IP_ADDR),
                    ip4_packet(MY_IP_ADDR, GOOGLE_DNS_ADDR, 1,
                               icmp_ping_request_packet(1, 1)),
                    icmp_ping_request_packet(1, 1) } }

\* texts handed to encode_ip4_addr
Texts ==
    { <<"1", "9", "2", ".", "1", "6", "8", ".", "1", ".", "2", "5", "0">>,
      <<"1", "0", ".", "0", ".", "0", ".", "2", "5", "4">>,
      <<"8", ".", "8", ".", "8", ".", "8">>,
      <<"0", ".", "0", ".", "0", ".", "0">>,
      <<"2", "5", "5", ".", "2", "5", "5", ".", "2", "5", "5", ".", "2", "5", "5">>,
      <<"1", ".", "2", ".", "3">>,
      <<"1", ".", "2", ".", "3", ".", "4", ".", "5">>,
      <<"2", "5", "6", ".", "1", ".", "1", ".", "1">>,
      <<"1", ".", "2", ".", "3", ".", "9", "9", "9">>,
      <<"1", ".", ".", "2", ".", "3">>,
      <<"a", ".", "b", ".", "c", ".", "d">>,
      <<>>,
      <<"1">>,
      <<"1", ".", "2", ".", "3", ".", "4", "a">>,
      <<"1", ".", "2", ".", "3", ".">> }

\* what a call of a decoder gives: its record, or the exception it raised
Called(r) == IF "exc" \in DOMAIN r THEN r ELSE [value |-> r]

\* one call of a codec in a behaviour
CodecCall(name, arg, result) ==
    /\ c_op = "none"
    /\ c_op' = name
    /\ c_in' = arg
    /\ c_out' = result
    /\ UNCHANGED <<net_vars, caller_vars>>

DecodeEthernet(buf) ==
    CodecCall("decode_ethernet_frame", buf,
              Called(decode_ethernet_frame(buf)))

DecodeArp(buf) ==
    CodecCall("decode_arp_packet", buf, Called(decode_arp_packet(buf)))

DecodeIpv4(buf) ==
    CodecCall("decode_ipv4_packet", buf, Called(decode_ipv4_packet(buf)))

DecodeIcmp(buf) ==
    CodecCall("decode_icmp_packet", buf, Called(decode_icmp_packet(buf)))

\* decode_ethernet_frame(ethernet_frame(dst, src, ethertype, payload))
EthernetRoundTrip(dst, src, ethertype, payload) ==
    CodecCall("ethernet_round_trip",
              [dst_addr |-> dst, src_addr |-> src, ethertype |-> ethertype,
               payload |-> payload],
              Called(decode_ethernet_frame(
                         ethernet_frame(dst, src, ethertype, payload))))

\* decode_arp_packet(arp_request(src_mac, src_ip, dst_ip))
ArpRoundTrip(src_mac, src_ip, dst_ip) ==
    CodecCall("arp_round_trip",
              [src_mac_addr |-> src_mac, src_ip_addr |-> src_ip,
               dst_ip_addr |-> dst_ip],
              Called(decode_arp_packet(arp_request(src_mac, src_ip,
                                                   dst_ip))))

EncodeIpv4(src, dst, protocol, payload) ==
    CodecCall("ip4_packet",
              [src_ip_addr |-> src, dst_ip_addr |-> dst,
               protocol |-> protocol, payload |-> payload],
              [value |-> ip4_packet(src, dst, protocol, payload)])

EncodeIcmp(identifier, sequence_no) ==
    CodecCall("icmp_ping_request_packet",
              [identifier |-> identifier, sequence_no |-> sequence_no],
              [value |-> icmp_ping_request_packet(identifier, sequence_no)])

Checksum(buf) ==
    CodecCall("calculate_checksum", buf,
              [value |-> calculate_checksum(buf)])

EncodeIp4Addr(text) ==
    CodecCall("encode_ip4_addr", text, encode_ip4_addr(text))

CodecNext ==
    \/ \E buf \in Buffers : DecodeEthernet(buf)
    \/ \E buf \in Buffers : DecodeArp(buf)
    \/ \E buf \in Buffers : DecodeIpv4(buf)
    \/ \E buf \in Buffers : DecodeIcmp(buf)
    \/ \E dst \in Macs, src \in Macs, ethertype \in Ethertypes,
          payload \in Payloads :
           EthernetRoundTrip(dst, src, ethertype, payload)
    \/ \E src_mac \in Macs, src_ip \in Ips, dst_ip \in Ips :
           ArpRoundTrip(src_mac, src_ip, dst_ip)
    \/ \E src \in Ips, dst \in Ips, protocol \in Protocols,
          payload \in Payloads :
           EncodeIpv4(src, dst, protocol, payload)
    \/ \E identifier \in IcmpNumbers, sequence_no \in IcmpNumbers :
           EncodeIcmp(identifier, sequence_no)
    \/ \E buf \in Buffers : Checksum(buf)
    \/ \E text \in Texts : EncodeIp4Addr(text)

SpecCodec == Init /\ [][CodecNext]_vars

\* ------------------------------------------------------------------------
\* The waits with a frame always ready to be read
\* ------------------------------------------------------------------------
\* one pass of the loop of receive_arp_response when select() returns at
\* once (select_time = 0) with frame f readable; the count of frames stops
\* at MaxRx
ArpBackToBack(f) == ArpReceive(f, 0, 0, Min(rx + 1, MaxRx))

\* the same pass of the loop of receive_echo_reply
EchoBackToBack(f) == EchoReceive(f, 0, 0, Min(rx + 1, MaxRx))

NextBackToBack ==
    \/ \E target \in Targets : Resolve(target)
    \/ \E f \in Traffic : ArpBackToBack(f)
    \/ \E target \in Targets, identifier \in Identifiers,
          sequence_no \in SequenceNos :
           Ping(target, identifier, sequence_no)
    \/ PingSend
    \/ \E f \in Traffic : EchoBackToBack(f)

\* a loop with a frame to read goes on to its next pass
SpecBackToBack ==
    /\ Init /\ [][NextBackToBack]_vars
    /\ WF_vars(\E f \in Traffic : ArpBackToBack(f))
    /\ WF_vars(\E f \in Traffic : EchoBackToBack(f))

\* ------------------------------------------------------------------------
\* Transport errors: send(), select() or recv() raising OSError
\* ------------------------------------------------------------------------
\* the sockets left open once an exception has passed the with block of
\* resolve_local_ip_addr and the with block of the ping cell
closed_on_raise(socks) ==
    close_socket(close_socket(socks, "resolve"), "cell")

\* resolve_ip_addr(target) on a cache miss when s.send() raises
ResolveSendRaises(name, target, socks) ==
    LET ip == resolve_target(target)
    IN  /\ ~table_has(ARP_TABLE, ip)
        /\ ip_addr' = ip
        /\ table_at_call' = ARP_TABLE
        /\ known_at_call' = resolved
        /\ echo_ret' = None
        /\ data' = <<>>
        /\ rx' = 0
        /\ match_at' = 0
        /\ passed_over' = FALSE
        /\ elapsed' = 0
        /\ time_left' = 0
        /\ sent' = <<>>
        /\ resolve_ret' = None
        /\ resolve_state' = "error"
        /\ outcome' = "OSError"
        /\ pc' = pc_after_raise("arp_wait")
        /\ opened' = socks \cup {"resolve"}
        /\ open_socks' = closed_on_raise(socks \cup {"resolve"})
        /\ UNCHANGED <<ARP_TABLE, resolved>>

ResolveSendError(target) ==
    /\ pc = "idle"
    /\ UNCHANGED <<codec_vars, caller_vars>>
    /\ op' = [name |-> "resolve", ip |-> target, identifier |-> 0,
              sequence_no |-> 0]
    /\ ResolveSendRaises("resolve", target, {})

\* the ping cell when the send of the ARP request raises
PingResolveSendError(target, identifier, sequence_no) ==
    /\ pc = "idle"
    /\ UNCHANGED <<codec_vars, caller_vars>>
    /\ op' = [name |-> "ping", ip |-> target, identifier |-> identifier,
              sequence_no |-> sequence_no]
    /\ ResolveSendRaises("ping", target, {"cell"})

\* receive_arp_response: select() or recv() raises
ArpWaitError ==
    /\ pc = "arp_wait"
    /\ UNCHANGED <<codec_vars, caller_vars>>
    /\ pc' = pc_after_raise("arp_wait")
    /\ outcome' = "OSError"
    /\ resolve_state' = "error"
    /\ open_socks' = closed_on_raise(open_socks)
    /\ UNCHANGED <<op, ARP_TABLE, ip_addr, resolve_ret, echo_ret, time_left,
                   data, sent, opened, elapsed, rx, match_at, passed_over,
                   table_at_call, resolved, known_at_call>>

\* send_echo_request: socket.send() raises once the next hop is resolved
PingSendError ==
    /\ pc = "ping_send"
    /\ UNCHANGED <<codec_vars, caller_vars>>
    /\ ~ethernet_frame_raises(resolve_ret)
    /\ pc' = pc_after_raise("echo_wait")
    /\ outcome' = "OSError"
    /\ open_socks' = closed_on_raise(open_socks)
    /\ UNCHANGED <<op, ARP_TABLE, ip_addr, resolve_state, resolve_ret,
                   echo_ret, time_left, data, sent, opened, elapsed, rx,
                   match_at, passed_over, table_at_call, resolved,
                   known_at_call>>

\* receive_echo_reply: select() or recv() raises
EchoWaitError ==
    /\ pc = "echo_wait"
    /\ UNCHANGED <<codec_vars, caller_vars>>
    /\ pc' = pc_after_raise("echo_wait")
    /\ outcome' = "OSError"
    /\ open_socks' = closed_on_raise(open_socks)
    /\ UNCHANGED <<op, ARP_TABLE, ip_addr, resolve_state, resolve_ret,
                   echo_ret, time_left, data, sent, opened, elapsed, rx,
                   match_at, passed_over, table_at_call, resolved,
                   known_at_call>>

\* the steps of Next, the time spent on a received frame left out (p = 0),
\* and the steps that raise
NextIoError ==
    \/ \E target \in Targets : Resolve(target)
    \/ ArpWaitTimeout
    \/ \E f \in Traffic, d \in 0..Timeout : ArpWaitFrame(f, d, 0)
    \/ \E target \in Targets, identifier \in Identifiers,
          sequence_no \in SequenceNos :
           Ping(target, identifier, sequence_no)
    \/ PingSend
    \/ EchoWaitTimeout
    \/ \E f \in Traffic, d \in 0..Timeout : EchoWaitFrame(f, d, 0)
    \/ \E target \in Targets : ResolveSendError(target)
    \/ \E target \in Targets, identifier \in Identifiers,
          sequence_no \in SequenceNos :
           PingResolveSendError(target, identifier, sequence_no)
    \/ ArpWaitError
    \/ PingSendError
    \/ EchoWaitError

SpecIoError == Init /\ [][NextIoError]_vars

\* ------------------------------------------------------------------------
\* Two callers of resolve_local_ip_addr running concurrently on the one
\* ARP_TABLE, each at its own statement of lines 712-733
\* ------------------------------------------------------------------------
\* addresses resolve_local_ip_addr is called with
LocalIps == {ROUTER_IP_ADDR, HOST_IP}

\* callers between the send of their request for ip (line 720) and the
\* return of receive_arp_response (line 728)
InFlight(ip) == {c \in Callers : call_pc[c] = "wait" /\ call_ip[c] = ip}

\* callers entering whatever the others are doing
may_enter_always(c, ip) == TRUE

\* lookup, send, wait and insert atomic per address: under "per_address" a
\* caller enters only while no other caller is inside for the same address
may_enter(c, ip) ==
    exclusion = "per_address" =>
        \A o \in Callers \ {c} : call_pc[o] = "idle" \/ call_ip[o] # ip

\* line 710: caller c calls resolve_local_ip_addr(ip)
CallerEnter(c, ip) ==
    /\ call_pc[c] = "idle"
    /\ may_enter(c, ip)
    /\ call_pc' = [call_pc EXCEPT ![c] = "lookup"]
    /\ call_ip' = [call_ip EXCEPT ![c] = ip]
    /\ call_response' = [call_response EXCEPT ![c] = None]
    /\ UNCHANGED <<exclusion, ARP_TABLE, flow_vars, codec_vars>>

\* lines 712-713: if ip_addr in ARP_TABLE: return ARP_TABLE[ip_addr]
CallerLookup(c) ==
    /\ call_pc[c] = "lookup"
    /\ call_pc' = [call_pc EXCEPT ![c] =
                       IF table_has(ARP_TABLE, call_ip[c]) THEN "idle"
                       ELSE "send"]
    /\ UNCHANGED <<exclusion, call_ip, call_response, ARP_TABLE, flow_vars,
                   codec_vars>>

\* lines 714-727: the socket is opened and the request sent
CallerSend(c) ==
    /\ call_pc[c] = "send"
    /\ call_pc' = [call_pc EXCEPT ![c] = "wait"]
    /\ UNCHANGED <<exclusion, call_ip, call_response, ARP_TABLE, flow_vars,
                   codec_vars>>

\* line 728: receive_arp_response returns the packet of frame f
CallerReply(c, f) ==
    /\ call_pc[c] = "wait"
    /\ LET r == arp_examine(f, call_ip[c])
       IN  /\ r.kind = "return"
           /\ call_response' = [call_response EXCEPT ![c] = Some(r.value.sha)]
    /\ call_pc' = [call_pc EXCEPT ![c] = "insert"]
    /\ UNCHANGED <<exclusion, call_ip, ARP_TABLE, flow_vars, codec_vars>>

\* lines 728, 732-733: receive_arp_response returns None, and so does the
\* call
CallerTimeout(c) ==
    /\ call_pc[c] = "wait"
    /\ call_pc' = [call_pc EXCEPT ![c] = "idle"]
    /\ UNCHANGED <<exclusion, call_ip, call_response, ARP_TABLE, flow_vars,
                   codec_vars>>

\* lines 729-731: ARP_TABLE[ip_addr] = response.sha; return response.sha
CallerInsert(c) ==
    /\ call_pc[c] = "insert"
    /\ ARP_TABLE' = table_put(ARP_TABLE, call_ip[c], call_response[c][1])
    /\ call_pc' = [call_pc EXCEPT ![c] = "idle"]
    /\ UNCHANGED <<exclusion, call_ip, call_response, flow_vars, codec_vars>>

NextConcurrent ==
    \/ \E c \in Callers, ip \in LocalIps : CallerEnter(c, ip)
    \/ \E c \in Callers : CallerLookup(c)
    \/ \E c \in Callers : CallerSend(c)
    \/ \E c \in Callers, f \in Traffic : CallerReply(c, f)
    \/ \E c \in Callers : CallerTimeout(c)
    \/ \E c \in Callers : CallerInsert(c)

\* the callers run either as the code stands, with nothing around the table,
\* or with the sequence made atomic per address
InitConcurrent ==
    /\ exclusion \in {"none", "per_address"}
    /\ call_pc = [c \in Callers |-> "idle"]
    /\ call_ip = [c \in Callers |-> <<>>]
    /\ call_response = [c \in Callers |-> None]
    /\ pc = "idle"
    /\ op = NoOp
    /\ outcome = "none"
    /\ ARP_TABLE = EmptyTable
    /\ ip_addr = <<>>
    /\ resolve_state = "none"
    /\ resolve_ret = None
    /\ echo_ret = None
    /\ time_left = 0
    /\ data = <<>>
    /\ open_socks = {}
    /\ sent = <<>>
    /\ opened = {}
    /\ elapsed = 0
    /\ rx = 0
    /\ match_at = 0
    /\ passed_over = FALSE
    /\ table_at_call = EmptyTable
    /\ resolved = EmptyTable
    /\ known_at_call = EmptyTable
    /\ c_op = "none"
    /\ c_in = <<>>
    /\ c_out = [value |-> <<>>]

SpecConcurrent == InitConcurrent /\ [][NextConcurrent]_vars

\* ------------------------------------------------------------------------
\* Properties
\* ------------------------------------------------------------------------
\* resolve_ip_addr has just returned to its caller
ResolveReturned ==
    /\ resolve_state \in {"hit", "reply", "timeout"}
    /\ \/ pc = "ping_send"
       \/ pc = "idle" /\ op.name = "resolve"

\* the ARP wait of this call has returned after a cache miss
ArpWaitReturned == ResolveReturned /\ ip_addr \notin DOMAIN table_at_call

\* receive_echo_reply of this ping has returned or raised
EchoWaitReturned ==
    /\ pc = "idle"
    /\ op.name = "ping"
    /\ sent # <<>>
    /\ SubSeq(sent[Len(sent)], 13, 14) = IPV4

ArpFramesSent == {i \in DOMAIN sent : SubSeq(sent[i], 13, 14) = ARP}

EchoFramesSent == {i \in DOMAIN sent : SubSeq(sent[i], 13, 14) = IPV4}

Bit(n, k) == (n \div (2 ^ k)) % 2

\* target agrees with MY_IP_ADDR on every bit the subnet mask selects
SameSubnetBits(ip) ==
    /\ Len(ip) = 4
    /\ \A i \in 1..4, k \in 0..7 :
           Bit(SUBNET_MASK[i], k) = 1 => Bit(ip[i], k) = Bit(MY_IP_ADDR[i], k)

\* C1: once an address (after the routing substitution) has been resolved
\* successfully, every later resolve of it is answered from the table with
\* the MAC of that first resolution, opens no socket and sends no ARP frame.
C1_CachedResolveNoIO ==
    (resolve_state # "none" /\ ip_addr \in DOMAIN known_at_call) =>
        /\ resolve_state = "hit"
        /\ resolve_ret = Some(known_at_call[ip_addr])
        /\ "resolve" \notin opened
        /\ "resolve" \notin open_socks
        /\ ArpFramesSent = {}

C1_Witness ==
    /\ op.name = "resolve"
    /\ outcome = "returned"
    /\ op.ip = GOOGLE_DNS_ADDR
    /\ ip_addr \in DOMAIN known_at_call
    /\ resolve_ret = Some(ROUTER_MAC)

\* C2: the address looked up and queried by ARP is the target itself when
\* the target agrees with own_ip on every masked bit, the gateway otherwise;
\* 192.168.1.54 maps to itself and 8.8.8.8 maps to 192.168.1.1.
C2_RoutingDecision ==
    resolve_state # "none" =>
        /\ ip_addr = IF SameSubnetBits(op.ip) THEN op.ip ELSE ROUTER_IP_ADDR
        /\ op.ip = <<192, 168, 1, 54>> => ip_addr = <<192, 168, 1, 54>>
        /\ op.ip = <<8, 8, 8, 8>> => ip_addr = <<192, 168, 1, 1>>
        /\ resolve_state # "hit" =>
               /\ sent # <<>>
               /\ SubSeq(sent[1], 13, 14) = ARP
               /\ SubSeq(sent[1], 39, 42) = ip_addr
        /\ resolve_state = "hit" =>
               resolve_ret = Some(table_at_call[ip_addr])

C2_Witness ==
    /\ op.ip = <<8, 8, 8, 8>>
    /\ resolve_state = "wait"
    /\ SubSeq(sent[1], 39, 42) = <<192, 168, 1, 1>>

\* C3: a resolve that missed the table and whose wait ended on a frame
\* meeting the ARP conditions stores (address being resolved -> sender MAC
\* of that frame), changes nothing else in the table and returns that MAC;
\* for a foreign target the key is the gateway address, not the target.
C3_MatchStoredAndReturned ==
    (ArpWaitReturned /\ rx > 0 /\ WireArpMatch(data, ip_addr)) =>
        /\ resolve_ret = Some(WireArpSha(data))
        /\ DOMAIN ARP_TABLE = DOMAIN table_at_call \cup {ip_addr}
        /\ ARP_TABLE[ip_addr] = WireArpSha(data)
        /\ \A k \in DOMAIN table_at_call : ARP_TABLE[k] = table_at_call[k]
        /\ ~SameSubnetBits(op.ip) =>
               /\ ip_addr = ROUTER_IP_ADDR
               /\ op.ip \notin DOMAIN ARP_TABLE

C3_Witness ==
    /\ ArpWaitReturned
    /\ op.ip = GOOGLE_DNS_ADDR
    /\ rx = 2
    /\ WireArpMatch(data, ROUTER_IP_ADDR)
    /\ ARP_TABLE[ROUTER_IP_ADDR] = ALT_MAC

\* C4: a resolve that missed the table and whose wait ended without any
\* received frame meeting the ARP conditions returns None, raises nothing
\* and leaves the ARP table as it was when the call started.
C4_TimeoutUnresolved ==
    (/\ ArpWaitReturned
     /\ ~passed_over
     /\ rx > 0 => ~WireArpMatch(data, ip_addr)) =>
        /\ resolve_ret = None
        /\ ARP_TABLE = table_at_call
        /\ outcome \in {"none", "returned"}

C4_Witness ==
    /\ ArpWaitReturned
    /\ op.name = "resolve"
    /\ outcome = "returned"
    /\ resolve_ret = None
    /\ rx = 1
    /\ table_at_call # EmptyTable

\* C5: when nothing becomes readable during a reply wait (ARP or ICMP) with
\* timeout 1.0, the wait returns None exactly when the timeout has elapsed
\* and raises nothing.
C5_SilentWaitTimesOut ==
    /\ (ArpWaitReturned /\ rx = 0) =>
           /\ resolve_ret = None
           /\ elapsed = TicksPerUnit
           /\ outcome \in {"none", "returned"}
    /\ (EchoWaitReturned /\ rx = 0) =>
           /\ echo_ret = None
           /\ elapsed = TicksPerUnit
           /\ outcome = "returned"

C5_Witness ==
    /\ EchoWaitReturned
    /\ rx = 0
    /\ echo_ret = None
    /\ elapsed = TicksPerUnit

\* C6: whatever non-matching frames arrive, the wall-clock time from the
\* start of a reply wait to its return never exceeds the timeout.
C6_TotalTimeWithinTimeout ==
    /\ (ArpWaitReturned /\ resolve_ret = None) => elapsed <= TicksPerUnit
    /\ (EchoWaitReturned /\ outcome = "returned" /\ echo_ret = None) =>
           elapsed <= TicksPerUnit

\* C7: a reply wait returns the first received frame that meets its
\* conditions: the returned value is decoded from the last frame received,
\* that frame meets the conditions, and no earlier frame of the wait did.
C7_FirstMatchReturned ==
    /\ (ArpWaitReturned /\ resolve_ret # None) =>
           /\ rx > 0
           /\ match_at = rx
           /\ WireArpMatch(data, ip_addr)
           /\ resolve_ret = Some(WireArpSha(data))
           /\ ~passed_over
    /\ (EchoWaitReturned /\ echo_ret # None) =>
           /\ rx > 0
           /\ match_at = rx
           /\ WireEchoMatch(data, op.ip, op.identifier, op.sequence_no)
           /\ echo_ret[1].type = data[35]
           /\ echo_ret[1].payload = SubSeq(data, 43, Len(data))
           /\ ~passed_over

C7_Witness ==
    /\ EchoWaitReturned
    /\ echo_ret # None
    /\ rx = 2
    /\ match_at = 2
    /\ Len(data) = 50

\* a frame shorter than the formats it carries require
TooShort(f) ==
    \/ Len(f) < 14
    \/ SubSeq(f, 13, 14) = ARP /\ Len(f) < 14 + 28
    \/ SubSeq(f, 13, 14) = IPV4 /\ Len(f) < 14 + 20
    \/ SubSeq(f, 13, 14) = IPV4 /\ Len(f) >= 34 /\ f[24] = 1
       /\ Len(f) < 14 + 20 + 8

\* C8: a received frame too short to decode at some layer is discarded by
\* the reply wait: it is never returned as the match and no decode error
\* escapes from the wait.
C8_ShortFrameDiscarded ==
    (rx > 0 /\ TooShort(data)) =>
        /\ outcome # "IndexError"
        /\ match_at = 0

\* C9: a ping whose next hop could not be resolved ends with a non-error
\* outcome and sends no echo request.
C9_NoRouteOutcome ==
    (pc = "idle" /\ op.name = "ping" /\ resolve_ret = None) =>
        /\ outcome = "returned"
        /\ EchoFramesSent = {}

\* the six conditions of the echo-reply wait on a frame that carries every
\* field they name
StrictEchoMatch(f, ip, identifier, sequence_no) ==
    /\ Len(f) >= 14 + 20 + 8
    /\ SubSeq(f, 1, 6) = MY_MAC_ADDR
    /\ SubSeq(f, 13, 14) = IPV4
    /\ SubSeq(f, 31, 34) = MY_IP_ADDR
    /\ SubSeq(f, 27, 30) = ip
    /\ f[24] = 1
    /\ f[39] * 256 + f[40] = identifier
    /\ f[41] * 256 + f[42] = sequence_no

\* C10: every ICMP message the echo-reply wait returns comes from a frame
\* addressed to own MAC, of ethertype IPv4, with IPv4 destination own IP,
\* IPv4 source the queried address, protocol 1, and whose ICMP identifier
\* and sequence number fields equal the ones given.
C10_ReturnedMeetsSixConditions ==
    (EchoWaitReturned /\ echo_ret # None) =>
        StrictEchoMatch(data, op.ip, op.identifier, op.sequence_no)

\* C11: the ARP table only grows: no step removes an entry or changes the
\* MAC of an entry, whatever calls are made and whatever frames arrive.
C11_CacheOnlyGrows ==
    [][\A k \in DOMAIN ARP_TABLE :
           k \in DOMAIN ARP_TABLE' /\ ARP_TABLE'[k] = ARP_TABLE[k]]_vars

C11_Witness ==
    /\ ROUTER_IP_ADDR \in DOMAIN ARP_TABLE
    /\ ARP_TABLE[ROUTER_IP_ADDR] = ROUTER_MAC
    /\ rx > 0
    /\ data = ArpFrame(MY_MAC_ADDR, <<0, 2>>, ALT_MAC, ROUTER_IP_ADDR)

\* C12: no retry: a call sends at most one ARP request, exactly one when
\* the address was not in the table at the call and none when it was, and a
\* ping sends at most one echo request, whatever the waits receive.
C12_NoRetry ==
    /\ Cardinality(ArpFramesSent) <= 1
    /\ Cardinality(EchoFramesSent) <= 1
    /\ Len(sent) = Cardinality(ArpFramesSent) + Cardinality(EchoFramesSent)
    /\ resolve_state # "none" =>
           Cardinality(ArpFramesSent) =
               IF ip_addr \in DOMAIN table_at_call THEN 0 ELSE 1
    /\ op.name = "resolve" => EchoFramesSent = {}

C12_Witness ==
    /\ EchoWaitReturned
    /\ rx = 2
    /\ echo_ret = None
    /\ outcome = "returned"
    /\ Cardinality(ArpFramesSent) = 1
    /\ Cardinality(EchoFramesSent) = 1

\* C18: the ARP table changes only in a step of a resolve of ip that
\* receives a frame addressed to own MAC, of ethertype ARP, whose sender-IP
\* field is ip, and the change adds exactly (ip -> sender-MAC field of that
\* frame); so every entry holds the sender MAC of such a frame, and a frame
\* failing one of the conditions never changes the table.
C18_EntriesFromMatchingFrames ==
    /\ [](\A k \in DOMAIN ARP_TABLE :
              k \in DOMAIN resolved /\ ARP_TABLE[k] = resolved[k])
    /\ [][ARP_TABLE' # ARP_TABLE =>
              /\ pc = "arp_wait"
              /\ rx' = rx + 1
              /\ ip_addr' = ip_addr
              /\ Len(data') >= 14 + 18
              /\ SubSeq(data', 1, 6) = MY_MAC_ADDR
              /\ SubSeq(data', 13, 14) = ARP
              /\ SubSeq(data', 29, 32) = ip_addr
              /\ DOMAIN ARP_TABLE' = DOMAIN ARP_TABLE \cup {ip_addr}
              /\ ARP_TABLE'[ip_addr] = SubSeq(data', 23, 28)
              /\ \A k \in DOMAIN ARP_TABLE : ARP_TABLE'[k] = ARP_TABLE[k]]_vars

C18_Witness ==
    /\ ArpWaitReturned
    /\ op.name = "ping"
    /\ ip_addr = HOST_IP
    /\ rx = 2
    /\ data = ArpFrame(MY_MAC_ADDR, <<0, 2>>, HOST_MAC, HOST_IP)
    /\ HOST_IP \notin DOMAIN table_at_call
    /\ ARP_TABLE[HOST_IP] = HOST_MAC

\* C13 (counterexample): a decoder called on a buffer shorter than the
\* minimum of its layer (Ethernet 14, ARP 28, IPv4 20, ICMP 8 bytes) fails
\* and returns no record
C13_ShortBufferFails ==
    (\/ c_op = "decode_ethernet_frame" /\ Len(c_in) < 14
     \/ c_op = "decode_arp_packet" /\ Len(c_in) < 28
     \/ c_op = "decode_ipv4_packet" /\ Len(c_in) < 20
     \/ c_op = "decode_icmp_packet" /\ Len(c_in) < 8)
    => "exc" \in DOMAIN c_out

\* C14: decoding an encoded Ethernet frame gives back the destination, the
\* source, the ethertype and the payload that were encoded, whatever the
\* payload length
C14_EthernetRoundTrip ==
    c_op = "ethernet_round_trip" =>
        /\ "value" \in DOMAIN c_out
        /\ c_out.value.dst_addr = c_in.dst_addr
        /\ c_out.value.src_addr = c_in.src_addr
        /\ c_out.value.ethertype = c_in.ethertype
        /\ c_out.value.payload = c_in.payload

C14_Witness ==
    /\ c_op = "ethernet_round_trip"
    /\ c_in.dst_addr = BROADCAST_MAC_ADDR
    /\ c_in.src_addr = MY_MAC_ADDR
    /\ c_in.ethertype = ARP
    /\ c_in.payload = <<>>
    /\ c_out.value.payload = <<>>
    /\ c_out.value.ethertype = ARP

\* C15: the checksum recomputed over an encoded IPv4 header, and over an
\* encoded ICMP echo request, with the embedded checksum in place, is 0
C15_ChecksumVerifies ==
    /\ c_op = "ip4_packet" =>
           /\ Len(c_out.value) = 20 + Len(c_in.payload)
           /\ calculate_checksum(SubSeq(c_out.value, 1, 20)) = 0
    /\ c_op = "icmp_ping_request_packet" =>
           /\ Len(c_out.value) = 16
           /\ calculate_checksum(c_out.value) = 0

\* an IPv4 header whose words add up to 0x1FFFF before the checksum is set
C15_Witness ==
    /\ c_op = "ip4_packet"
    /\ c_in.src_ip_addr = CARRY_IP
    /\ c_in.dst_ip_addr = ZERO_IP
    /\ c_in.protocol = 1
    /\ c_in.payload = <<>>
    /\ SubSeq(c_out.value, 11, 12) = <<255, 254>>
    /\ calculate_checksum(c_out.value) = 0

\* C16 (counterexample): the checksum of an odd-length buffer is the
\* checksum of the buffer padded with one zero byte
C16_OddLengthPadded ==
    (c_op = "calculate_checksum" /\ Len(c_in) % 2 = 1)
    => c_out.value = calculate_checksum(c_in \o <<0>>)

\* the text is four non-empty runs of digits separated by three dots, each
\* run a number of 0..255
ValidIp4Text(text) ==
    LET dots == {i \in DOMAIN text : text[i] = "."}
        edges == dots \cup {0, Len(text) + 1}
        runs == {e \in [from : edges, to : edges] :
                    /\ e.from < e.to
                    /\ \A d \in edges : ~(e.from < d /\ d < e.to)}
    IN  /\ Cardinality(dots) = 3
        /\ \A i \in DOMAIN text : text[i] = "." \/ IsDigit(text[i])
        /\ \A e \in runs :
               /\ e.to - e.from > 1
               /\ int_value(SubSeq(text, e.from + 1, e.to - 1)) <= 255

\* C17 (counterexample): encode_ip4_addr fails on every text that is not
\* four dot-separated integers of 0..255 and gives a 4-byte address on the
\* others
C17_EncodeRejectsInvalid ==
    c_op = "encode_ip4_addr" =>
        IF ValidIp4Text(c_in)
        THEN "value" \in DOMAIN c_out /\ Len(c_out.value) = 4
        ELSE "exc" \in DOMAIN c_out

\* C20 (counterexample): decoding the output of arp_request gives the fixed
\* fields, the sender addresses, an all-zero target MAC and the whole
\* 4-byte target IP
C20_ArpRequestRoundTrip ==
    c_op = "arp_round_trip" =>
        /\ "value" \in DOMAIN c_out
        /\ c_out.value.htype = <<0, 1>>
        /\ c_out.value.ptype = <<8, 0>>
        /\ c_out.value.hlen = <<6>>
        /\ c_out.value.plen = <<4>>
        /\ c_out.value.oper = <<0, 1>>
        /\ c_out.value.sha = c_in.src_mac_addr
        /\ c_out.value.spa = c_in.src_ip_addr
        /\ c_out.value.tha = <<0, 0, 0, 0, 0, 0>>
        /\ c_out.value.tpa = c_in.dst_ip_addr

\* C19 (counterexample): a wait for a reply that has started returns in the
\* end, also when non-matching frames arrive back to back and select()
\* returns at once every time
C19_WaitEventuallyReturns ==
    /\ (pc = "arp_wait") ~> (pc # "arp_wait")
    /\ (pc = "echo_wait") ~> (pc # "echo_wait")

\* C21: the echo request of a ping to a foreign-subnet address goes to the
\* MAC the gateway resolved to, carries the address pinged as its IPv4
\* destination, and a reply the wait returns has that address, not the
\* gateway's, as its IPv4 source.
C21_ForeignPingAddressing ==
    (op.name = "ping" /\ ~SameSubnetBits(op.ip)) =>
        /\ \A i \in EchoFramesSent :
               /\ ROUTER_IP_ADDR \in DOMAIN ARP_TABLE
               /\ SubSeq(sent[i], 1, 6) = ARP_TABLE[ROUTER_IP_ADDR]
               /\ SubSeq(sent[i], 31, 34) = op.ip
               /\ SubSeq(sent[i], 31, 34) # ROUTER_IP_ADDR
        /\ (EchoWaitReturned /\ echo_ret # None) =>
               /\ SubSeq(data, 27, 30) = op.ip
               /\ SubSeq(data, 27, 30) # ROUTER_IP_ADDR

C21_Witness ==
    /\ EchoWaitReturned
    /\ op.ip = GOOGLE_DNS_ADDR
    /\ echo_ret # None
    /\ SubSeq(sent[Len(sent)], 1, 6) = ROUTER_MAC
    /\ SubSeq(sent[Len(sent)], 31, 34) = GOOGLE_DNS_ADDR
    /\ SubSeq(data, 27, 30) = GOOGLE_DNS_ADDR

\* C25 (counterexample): an answer resolve accepts comes from an ARP
\* message whose operation field is 2 (reply)
C25_AcceptedIsReply ==
    (ArpWaitReturned /\ resolve_state = "reply") =>
        SubSeq(data, 21, 22) = <<0, 2>>

\* C26 (counterexample): an ICMP message ping returns has type 0 and code 0
C26_ReturnedIsEchoReply ==
    (EchoWaitReturned /\ echo_ret # None) =>
        /\ Len(data) >= 36
        /\ data[35] = 0
        /\ data[36] = 0

\* C27: every key of the ARP table is an address on the own subnet, and a
\* call adds at most one key.
C27_KeysOnOwnSubnet ==
    /\ \A k \in DOMAIN ARP_TABLE : SameSubnetBits(k)
    /\ Cardinality(DOMAIN ARP_TABLE \ DOMAIN table_at_call) <= 1

C27_Witness ==
    /\ op.name = "ping"
    /\ op.ip = GOOGLE_DNS_ADDR
    /\ pc = "idle"
    /\ DOMAIN table_at_call = {HOST_IP}
    /\ DOMAIN ARP_TABLE = {HOST_IP, ROUTER_IP_ADDR}

\* C22: the socket resolve opens on a cache miss is open only while resolve
\* waits for the answer: once resolve has returned or raised (matching
\* reply, timeout, transport error) the socket is closed.
C22_ResolveSocketClosed ==
    /\ pc # "arp_wait" => "resolve" \notin open_socks
    /\ resolve_state \in {"reply", "timeout", "error"} =>
           "resolve" \in opened
    /\ pc = "idle" => open_socks = {}

C22_Witness ==
    /\ op.name = "resolve"
    /\ outcome = "OSError"
    /\ resolve_state = "error"
    /\ rx = 1
    /\ "resolve" \in opened
    /\ open_socks = {}

\* C24: a step in which send, select or recv raises a transport error ends
\* the call at once with that error: no frame is received or sent in it or
\* after it, and the ARP table stays as it was.
C24_TransportErrorPropagates ==
    [][outcome' = "OSError" =>
           /\ pc' = "idle"
           /\ ARP_TABLE' = ARP_TABLE
           /\ pc # "idle" => (sent' = sent /\ rx' = rx /\ data' = data)
           /\ pc = "idle" => (sent' = <<>> /\ rx' = 0)]_vars

C24_Witness ==
    /\ op.name = "ping"
    /\ outcome = "OSError"
    /\ pc = "idle"
    /\ Len(sent) = 2
    /\ rx = 1
    /\ ARP_TABLE # table_at_call

\* C23: two callers resolving the same uncached address with nothing around
\* the table can both have a request in flight (the witness); with lookup,
\* send, wait and insert atomic per address at most one request per address
\* is in flight, and none for an address the table already holds
C23_AtomicOneInFlight ==
    exclusion = "per_address" =>
        \A ip \in LocalIps :
            /\ Cardinality(InFlight(ip)) <= 1
            /\ InFlight(ip) # {} => ip \notin DOMAIN ARP_TABLE

C23_Witness ==
    /\ exclusion = "none"
    /\ ~table_has(ARP_TABLE, ROUTER_IP_ADDR)
    /\ InFlight(ROUTER_IP_ADDR) = Callers

C23_AtomicWitness ==
    /\ exclusion = "per_address"
    /\ call_pc = [c \in Callers |-> IF c = 1 THEN "wait" ELSE "idle"]
    /\ call_ip[1] = ROUTER_IP_ADDR
    /\ table_has(ARP_TABLE, HOST_IP)

====
